---- MODULE Spec2Model ----
(***************************************************************************)
(* wwpppp: projects (target images anchored on a tiled canvas), the tile   *)
(* cache fed from inbox screenshots, the project metadata cache, the       *)
(* tile -> project index and the diff engine.                              *)
(*                                                                         *)
(* Python values keep their types where the code's behaviour depends on    *)
(* them: a bytes object is [type |-> "bytes", data |-> <<...>>], the       *)
(* sequence object returned by PIL's Image.getdata() is                    *)
(* [type |-> "ImagingCore", data |-> <<...>>].                             *)
(***************************************************************************)
EXTENDS Integers, Sequences, FiniteSets, TLC

VARIABLES
    \* ---- the process (main.py) ----
    pc,         \* "off", "init" (Main() returned) or "watching" (watch_for_updates)
    projects,   \* Main.projects: path -> [rect, image]; DOMAIN = dict keys
    tiles,      \* Main.tiles: tile -> set of project paths; DOMAIN = dict keys
    events,     \* changes reported by watch() and not yet handled
    \* ---- persistent storage ----
    files,      \* projects directory: path -> file or NoFile
    derived,    \* <name>.remaining.png / <name>.fix.png per project path
    db,         \* projects.db, table cache: filename -> row or NoRow
    tilecache,  \* tile-<x>_<y>.png in the cache directory: tile -> file or NoFile
    inbox,      \* downloads directory: screenshot name -> file or NoFile
    storedAt,   \* per filename: the file's st_mtime (in ticks) when its row
                \* was stored
    captured,   \* per tile: the capture timestamp of the screenshot the cached
                \* tile came from (stored) and the newest one of the
                \* screenshots a tile was ever stored from (newest)
    \* ---- the environment's budget ----
    ops,        \* user operations left
    \* ---- history (what the last handler did) ----
    lastOpen,   \* the last Project.try_open calls of a handler
    lastDiff,   \* the Project.run_diff calls of the last handler
    lastPass,   \* the last Main.consume_new_tiles pass
    lastEvent,  \* the last change of the projects directory handled
    gone,       \* per path: the row forgotten at its deleted event, NoRow once
                \* another change of the path is handled
    lastStore,  \* per filename: the last store not followed by a forget
    \* ---- pure functions applied to drawn inputs ----
    arg,        \* the input
    res         \* the result, NoResult before the function is applied

vars == <<pc, projects, tiles, events, files, derived, db, tilecache,
          inbox, storedAt, captured, ops, lastOpen, lastDiff, lastPass,
          lastEvent, gone, lastStore, arg, res>>

mainVars == <<pc, projects, tiles, events, files, derived, db, tilecache,
              inbox, storedAt, captured, ops, lastOpen, lastDiff, lastPass,
              lastEvent, gone>>

\* Absent values are records too, so that they compare with present ones.
NoFile == [kind |-> "absent"]
NoRow == [kind |-> "norow"]
NoResult == [kind |-> "noresult"]
None == [kind |-> "none"]

Min(a, b) == IF a <= b THEN a ELSE b
Max(a, b) == IF a >= b THEN a ELSE b
Abs(a) == IF a >= 0 THEN a ELSE 0 - a

(***************************************************************************)
(* geometry.py                                                             *)
(***************************************************************************)

\* The tile edge: the literal 1000 of geometry.py (from4, to4, tiles) and
\* of ingest.py (obtain, stitch_tiles).
TileEdge == 1000

\* Point.from4: (tx, ty, px, py) of a project file name -> canvas point.
\* The two assertions make it fail for negative numbers and px, py >= 1000.
From4Ok(tx, ty, px, py) ==
    /\ Min(Min(tx, ty), Min(px, py)) >= 0
    /\ Max(px, py) < TileEdge

From4(tx, ty, px, py) == [x |-> tx * TileEdge + px, y |-> ty * TileEdge + py]

\* Rectangle.from_point_size
FromPointSize(point, size) ==
    [left |-> point.x, top |-> point.y,
     right |-> point.x + size.w, bottom |-> point.y + size.h]

\* Rectangle.point: the top-left point, whatever the order of the edges.
RectPoint(r) == [x |-> Min(r.left, r.right), y |-> Min(r.top, r.bottom)]

\* Rectangle.size
RectSize(r) == [w |-> Abs(r.right - r.left), h |-> Abs(r.bottom - r.top)]

\* Python's range(a, b)
PyRange(a, b) == {i \in a..(b - 1) : TRUE}

\* Rectangle.tiles: floor division on the near edges, ceiling on the far ones.
RectTiles(r) ==
    LET left == r.left \div TileEdge
        top == r.top \div TileEdge
        right == (r.right + 999) \div TileEdge
        bottom == (r.bottom + 999) \div TileEdge
    IN  {<<tx, ty>> : tx \in PyRange(left, right), ty \in PyRange(top, bottom)}

(***************************************************************************)
(* projects.py: pixel_compare                                              *)
(***************************************************************************)

\* Python's `a and b` on integers: a when a is falsy (0), else b.
PyAnd(a, b) == IF a = 0 THEN a ELSE b

\* A plausible slip (the drift the history shows): `current or desired`.
PixelCompareOr(current, desired) ==
    IF desired = current THEN <<0, 0>>
    ELSE <<desired, IF current = 0 THEN desired ELSE current>>

\* pixel_compare(current, desired) -> (remaining, fix)
pixel_compare(current, desired) ==
    IF desired = current THEN <<0, 0>> ELSE <<desired, PyAnd(current, desired)>>

(***************************************************************************)
(* palette.py                                                              *)
(***************************************************************************)

\* _COLORS as integers; Colors[i + 1] is palette entry i.
Colors == <<
    16711935, 0, 3947580, 7895160, 13816530, 16777215, 6291480, 15539236,
    16744231, 16165385, 16375099, 16775868, 964968, 1304187, 8912734, 819566,
    1093286, 1302974, 6354930, 2642078, 4232164, 7033078, 10072571, 7867545,
    11155641, 14721017, 13303930, 15474560, 15961513, 6833716, 9791530,
    16298615, 11184810, 10817054, 16416882, 14965786, 10257457, 12954929,
    15258719, 4877114, 5936202, 8701299, 1014175, 12319474, 8243199, 5059000,
    4866692, 8024516, 11906801, 10179145, 13729912, 16430756, 14394467,
    8086354, 10257515, 14071188, 13729873, 16762277, 7169087, 9735275,
    13485470, 3356993, 7173517, 11778513 >>

\* rgb2pal[0x10AE82] = rgb2pal[0x10AEA6]: the alias and the canonical color.
AliasRgb == 1093250
AliasOfRgb == 1093286

\* Palette.__init__: rgb2pal maps the RGB of every entry but entry 0 to its
\* index, plus the alias. Rgb2PalKeys: its keys; Rgb2Pal: the value of a key.
Rgb2PalKeys == {Colors[i + 1] : i \in 1..(Len(Colors) - 1)} \cup {AliasRgb}

Rgb2Pal(rgb) ==
    IF rgb = AliasRgb
    THEN CHOOSE i \in 1..(Len(Colors) - 1) : Colors[i + 1] = AliasOfRgb
    ELSE CHOOSE i \in 1..(Len(Colors) - 1) : Colors[i + 1] = rgb

\* sorted(keys)
RECURSIVE Sorted(_)
SortedFrom(keys, least) == <<least>> \o Sorted(keys \ {least})

Sorted(keys) ==
    IF keys = {} THEN <<>>
    ELSE SortedFrom(keys, CHOOSE x \in keys : \A y \in keys : x <= y)

\* Palette.__init__: self._idx, the sorted keys, and self._values, the index
\* of each.
PaletteIdx == Sorted(Rgb2PalKeys)
PaletteValues == [k \in 1..Len(PaletteIdx) |-> Rgb2Pal(PaletteIdx[k])]

\* A plausible slip in lookup: bisect_right for bisect_left.
BisectRight(a, x) == Cardinality({k \in 1..Len(a) : a[k] <= x})

\* bisect_left(a, x): the 0-based position of the first element not below x.
BisectLeft(a, x) == Cardinality({k \in 1..Len(a) : a[k] < x})

PackRgb(rgba) == rgba[1] * 65536 + rgba[2] * 256 + rgba[3]

\* Palette.lookup(rgba), rgba = <<r, g, b, a>>. LookupRaises: the lookup
\* raises ColorNotInPalette; PaletteLookup: the index it returns otherwise.
NotAt(position, rgb) ==
    \/ position = Len(PaletteIdx)
    \/ PaletteIdx[position + 1] # rgb

LookupRaises(rgba) ==
    /\ rgba[4] # 0
    /\ NotAt(BisectLeft(PaletteIdx, PackRgb(rgba)), PackRgb(rgba))

PaletteLookup(rgba) ==
    IF rgba[4] = 0 THEN 0
    ELSE PaletteValues[BisectLeft(PaletteIdx, PackRgb(rgba)) + 1]

\* An image: [mode, w, h, data], data row by row; mode "P" images carry the
\* palette of PALETTE and hold indices, mode "RGBA" images hold <<r, g, b, a>>.
\* Palette.ensure(image): the image itself when it is already paletted, else
\* every pixel looked up; ColorNotInPalette when one lookup raises.
EnsureRaises(image) ==
    /\ image.mode # "P"
    /\ \E k \in 1..Len(image.data) : LookupRaises(image.data[k])

PaletteEnsure(image) ==
    IF image.mode = "P" THEN image
    ELSE [mode |-> "P", w |-> image.w, h |-> image.h,
          data |-> [k \in 1..Len(image.data) |-> PaletteLookup(image.data[k])]]

\* Palette.new(size): a paletted image of index 0 everywhere.
PaletteNew(size) ==
    [mode |-> "P", w |-> size.w, h |-> size.h,
     data |-> [k \in 1..(size.w * size.h) |-> 0]]

\* Image.putdata(data) on a new image: the values fill the image from the
\* top-left, the rest stays 0.
PutData(image, data) ==
    [image EXCEPT !.data =
        [k \in 1..Len(image.data) |-> IF k <= Len(data) THEN data[k] ELSE 0]]

(***************************************************************************)
(* The inputs: project files, screenshots and their times.                 *)
(***************************************************************************)

\* A path of the projects directory is its file name split at the dots:
\* <<"a_0_0_999_0", "png">> is a_0_0_999_0.png. All paths are in the one
\* directory, so path.name identifies the path.
StemA == "a_0_0_999_0"
StemB == "b_1_0_0_0"

\* The four numbers that end a stem, as _RE_HAS_COORDS captures them.
Coords == (StemA :> <<0, 0, 999, 0>>) @@ (StemB :> <<1, 0, 0, 0>>)

PathA == <<StemA, "png">>
PathB == <<StemB, "png">>

\* _RE_HAS_COORDS.search(path.name): four numbers, each after "-", "_" or
\* " ", right before the final ".png".
HasCoords(path) ==
    /\ Len(path) >= 2
    /\ path[Len(path)] = "png"
    /\ path[Len(path) - 1] \in DOMAIN Coords

\* path.with_suffix(suffix): the last dotted part replaced by the suffix's.
WithSuffix(path, parts) == SubSeq(path, 1, Len(path) - 1) \o parts

InvalidPath(path) == WithSuffix(path, <<"invalid", "png">>)

ProjectPaths == {PathA, PathB}
Paths == ProjectPaths \cup {InvalidPath(p) : p \in ProjectPaths}

\* RGBA pixels: transparent, two palette colors (0x600018: index 6,
\* 0xED1C24: index 7) and a color outside the palette.
PxNone == <<0, 0, 0, 0>>
PxA == <<96, 0, 24, 255>>
PxB == <<237, 28, 36, 255>>
PxBad == <<1, 2, 3, 255>>

RgbaImage(pixels) == [mode |-> "RGBA", w |-> Len(pixels), h |-> 1, data |-> pixels]

ImgOne == RgbaImage(<<PxA>>)
ImgTwo == RgbaImage(<<PxA, PxB>>)
ImgBlank == RgbaImage(<<PxNone>>)
ImgBad == RgbaImage(<<PxBad>>)

\* The images a user saves under each path once the process has run; the
\* first state has ImgTwo under a and ImgOne under b, or no file. What is
\* saved under b is wider than what was there first.
UserImages(path) ==
    IF path = PathA THEN {ImgBlank, ImgBad} ELSE {ImgTwo}

\* The image each path has in the first state, which the user can put back
\* (a copy that keeps its modification time) after deleting the file.
FirstImage(path) == IF path = PathA THEN ImgTwo ELSE ImgOne

\* The user's operations are counted down from MaxOps.
MaxOps == 2

\* Times are counted in half seconds: st_mtime = tick / 2 seconds. The files
\* of the first state were saved at FirstTicks; the process writes at
\* NowTicks; the user saves at SaveTicks, within the second of the process's
\* writes or in the next.
FirstTicks == {2}
SaveTicks == {5, 6}
NowTicks == {4}

\* int(path.stat().st_mtime)
IntMtime(tick) == tick \div 2

File(image, tick) == [kind |-> "file", image |-> image, mtime |-> tick]

\* The canvas pixels the model looks at; every other pixel of a tile or of a
\* screenshot is transparent.
Samples == {<<0, 0>>, <<999, 0>>, <<1000, 0>>, <<1500, 0>>}

TileOf(point) == <<point[1] \div TileEdge, point[2] \div TileEdge>>

View(p0, p999, p1000, p1500) ==
    (<<0, 0>> :> p0) @@ (<<999, 0>> :> p999) @@ (<<1000, 0>> :> p1000)
        @@ (<<1500, 0>> :> p1500)

\* What a screenshot shows of the canvas.
ViewAA == View(PxNone, PxA, PxA, PxNone)
ViewB == View(PxNone, PxB, PxNone, PxNone)
Views == {
    ViewAA,
    ViewB,
    View(PxA, PxNone, PxB, PxNone),
    View(PxNone, PxBad, PxA, PxNone) }

\* A screenshot's name, wplace-cached-<w>000x<h>000-<x1>_<y1>_0_0-<ts>.png,
\* as the groups of _RE_FILENAME.
Shot(w, h, x1, y1, ts) == [w |-> w, h |-> h, x1 |-> x1, y1 |-> y1, ts |-> ts]

ShotOne == Shot(1, 1, 0, 0, 1)
ShotTwo == Shot(2, 1, 0, 0, 2)
ShotNames == {ShotOne, ShotTwo}

\* What the downloads show: the one-tile screenshot one of two views, the
\* two-tile screenshot any view.
ShotViews(name) == IF name = ShotOne THEN {ViewAA, ViewB} ELSE Views

\* The tiles a screenshot covers, in the order search_tiles yields them:
\* itertools.product(range(w), range(h)).
ShotTileSeq(n) ==
    [k \in 1..(n.w * n.h) |->
        <<n.x1 + ((k - 1) \div n.h), n.y1 + ((k - 1) % n.h)>>]

\* A screenshot file: readable with the pixels of its area, or not an image
\* PIL can open. Its st_mtime is the time of the download.
ShotFile(readable, view, tick) ==
    [kind |-> "file", readable |-> readable, view |-> view, mtime |-> tick]

\* The time of the download when `left` user operations are left: each
\* download is later than the one before.
DropTick(left) == 3 + (MaxOps - left)

(***************************************************************************)
(* projects.py: CachedProjectMetadata                                      *)
(***************************************************************************)

\* CachedProjectMetadata.__init__: self.key
CacheKey(path) == path

\* CachedProjectMetadata.__init__: self.mtime, 0 for a missing file.
CacheMtime(fs, path) ==
    IF fs[path] = NoFile THEN 0 ELSE IntMtime(fs[path].mtime)

Row(mtime, rect) ==
    [kind |-> "row", mtime |-> mtime, left |-> rect.left, top |-> rect.top,
     right |-> rect.right, bottom |-> rect.bottom]

\* A plausible slip in _load: an entry as new as the file counts as valid.
CacheLoadNotOlder(table, key, mtime) ==
    LET row == table[key]
    IN  IF row = NoRow THEN <<>>
        ELSE IF row.mtime < mtime THEN <<>>
        ELSE <<[left |-> row.left, top |-> row.top,
                right |-> row.right, bottom |-> row.bottom]>>

\* CachedProjectMetadata._load: the list the object becomes, empty on a miss,
\* the rectangle on a hit. (The table always has its six columns here.)
CacheLoad(table, key, mtime) ==
    LET row == table[key]
    IN  IF row = NoRow THEN <<>>
        ELSE IF row.mtime # mtime THEN <<>>
        ELSE <<[left |-> row.left, top |-> row.top,
                right |-> row.right, bottom |-> row.bottom]>>

\* CachedProjectMetadata.__call__: REPLACE INTO cache.
CacheStore(table, key, mtime, rect) == [table EXCEPT ![key] = Row(mtime, rect)]

\* CachedProjectMetadata.forget: DELETE FROM cache.
CacheForget(table, key) == [table EXCEPT ![key] = NoRow]

(***************************************************************************)
(* ingest.py: stitch_tiles                                                 *)
(***************************************************************************)

AllTiles == {TileOf(pt) : pt \in Samples}

\* The pixel of a cached tile at a canvas point.
TilePixel(tile_image, point) ==
    IF point \in DOMAIN tile_image.data THEN tile_image.data[point] ELSE 0

\* stitch_tiles(rect): an index-0 image of rect.size with every cached tile of
\* rect.tiles pasted at its place; a tile missing from the cache is skipped.
StitchTiles(rect, cache) ==
    LET size == RectSize(rect)
        point == RectPoint(rect)
        At(k) == <<point.x + ((k - 1) % size.w), point.y + ((k - 1) \div size.w)>>
        Pixel(pt) ==
            IF /\ TileOf(pt) \in RectTiles(rect)
               /\ TileOf(pt) \in DOMAIN cache
               /\ cache[TileOf(pt)] # NoFile
            THEN TilePixel(cache[TileOf(pt)], pt)
            ELSE 0
    IN  [mode |-> "P", w |-> size.w, h |-> size.h,
         data |-> [k \in 1..(size.w * size.h) |-> Pixel(At(k))]]

(***************************************************************************)
(* projects.py: Project                                                    *)
(***************************************************************************)

\* The state the handlers read and write, threaded through their calls:
\* [projects, tiles, files, derived, db, tilecache, inbox, storedAt, captured]
\* are the variables of the same names; emitted are the changes watch() will report for the
\* handler's own writes; opens and diffs record the try_open and run_diff
\* calls made.

\* A change watch() reports: of a file of the projects directory, or of a
\* screenshot of the inbox.
FileEvent(change, path) ==
    [change |-> change, dir |-> "wplace", path |-> path, shot |-> None]

InboxEvent(change, name) ==
    [change |-> change, dir |-> "inbox", path |-> <<>>, shot |-> name]

\* bytes(...) and Image.getdata(): the same numbers under different types.
Bytes(data) == [type |-> "bytes", data |-> data]
GetData(image) == [type |-> "ImagingCore", data |-> image.data]

\* max(data) == 0
AllZero(bytes) == \A k \in 1..Len(bytes.data) : bytes.data[k] = 0

NoDerived == [remaining |-> None, fix |-> None]

\* Project._save_diff: the image written, of rect.size.
SaveDiff(rect, bytes) == PutData(PaletteNew(RectSize(rect)), bytes.data)

\* A plausible slip: a complete project deletes its .remaining.png only.
DiffFilesKeepFix(rect, remaining_data, fix_data, target_data, before) ==
    IF remaining_data = target_data THEN [raised |-> "", derived |-> before]
    ELSE IF AllZero(remaining_data)
    THEN [raised |-> "", derived |-> [before EXCEPT !.remaining = None]]
    ELSE [raised |-> "",
          derived |->
            [remaining |-> SaveDiff(rect, remaining_data),
             fix |-> IF fix_data = remaining_data \/ AllZero(fix_data)
                     THEN None ELSE SaveDiff(rect, fix_data)]]

\* A plausible slip: a complete project deletes its derived files with
\* unlink(), which raises FileNotFoundError for a file that is not there.
DiffFilesUnlinkStrict(rect, remaining_data, fix_data, target_data, before) ==
    IF remaining_data = target_data THEN [raised |-> "", derived |-> before]
    ELSE IF AllZero(remaining_data)
    THEN IF before.remaining = None
         THEN [raised |-> "FileNotFoundError", derived |-> before]
         ELSE IF before.fix = None
         THEN [raised |-> "FileNotFoundError",
               derived |-> [before EXCEPT !.remaining = None]]
         ELSE [raised |-> "", derived |-> NoDerived]
    ELSE [raised |-> "",
          derived |->
            [remaining |-> SaveDiff(rect, remaining_data),
             fix |-> IF fix_data = remaining_data \/ AllZero(fix_data)
                     THEN None ELSE SaveDiff(rect, fix_data)]]

\* A plausible slip: run_diff returns without deleting a .fix.png it is not
\* to write.
DiffFilesStaleFix(rect, remaining_data, fix_data, target_data, before) ==
    IF remaining_data = target_data THEN [raised |-> "", derived |-> before]
    ELSE IF AllZero(remaining_data) THEN [raised |-> "", derived |-> NoDerived]
    ELSE [raised |-> "",
          derived |->
            [remaining |-> SaveDiff(rect, remaining_data),
             fix |-> IF fix_data = remaining_data \/ AllZero(fix_data)
                     THEN before.fix ELSE SaveDiff(rect, fix_data)]]

\* Project.run_diff from `fix_path = ...` on -> [raised, derived]: what the
\* derived files are afterwards. remaining_data and fix_data are bytes;
\* target_data is what Image.getdata() returned, and `==` between the two is
\* Python's.
DiffFiles(rect, remaining_data, fix_data, target_data, before) ==
    IF remaining_data = target_data THEN [raised |-> "", derived |-> before]
    ELSE IF AllZero(remaining_data) THEN [raised |-> "", derived |-> NoDerived]
    ELSE [raised |-> "",
          derived |->
            [remaining |-> SaveDiff(rect, remaining_data),
             fix |-> IF fix_data = remaining_data \/ AllZero(fix_data)
                     THEN None ELSE SaveDiff(rect, fix_data)]]

\* PALETTE.open_image(path) -> [raised, image, w]: FileNotFoundError for a
\* missing file, ColorNotInPalette from ensure; an image that was not
\* paletted is saved over the file (a write at time `now`, not before the
\* time of the file it replaces, which watch() reports as modified).
OpenImage(w, path, now) ==
    IF w.files[path] = NoFile
    THEN [raised |-> "FileNotFoundError", image |-> None, w |-> w]
    ELSE IF EnsureRaises(w.files[path].image)
    THEN [raised |-> "ColorNotInPalette", image |-> None, w |-> w]
    ELSE IF w.files[path].image.mode = "P"
    THEN [raised |-> "", image |-> w.files[path].image, w |-> w]
    ELSE [raised |-> "", image |-> PaletteEnsure(w.files[path].image),
          w |-> [w EXCEPT
              !.files[path] = File(PaletteEnsure(@.image), Max(now, @.mtime)),
              !.emitted = @ \cup {FileEvent("modified", path)}]]

\* map(pixel_compare, current.getdata(), target_data): as long as the shorter
\* of the two.
NewData(current_data, target_data) ==
    [k \in 1..Min(Len(current_data), Len(target_data)) |->
        pixel_compare(current_data[k], target_data[k])]

\* run_diff once newdata is there: zip(*newdata) of no pixels cannot be
\* unpacked (ValueError); else the two byte strings decide the files. The
\* record of the call keeps what it computed (the remaining and fix maps, from
\* the target and the rectangle), whether the stitched image equalled the
\* target (same) or the remaining map did (unstarted), whether the two
\* images differed in their pixel counts (mismatch), and the derived files
\* before and after.
RunDiffData(o, path, proj, current, newdata) ==
    LET remaining_data == Bytes([k \in 1..Len(newdata) |-> newdata[k][1]])
        fix_data == Bytes([k \in 1..Len(newdata) |-> newdata[k][2]])
        after == DiffFiles(proj.rect, remaining_data, fix_data, GetData(o.image),
                           o.w.derived[path])
    IN  IF newdata = <<>>
        THEN [raised |-> "ValueError", proj |-> [proj EXCEPT !.image = o.image],
              w |-> o.w]
        ELSE [raised |-> after.raised, proj |-> [proj EXCEPT !.image = o.image],
              w |-> [o.w EXCEPT
                  !.derived[path] = after.derived,
                  !.diffs = @ \cup
                      {[path |-> path, same |-> current = o.image,
                        unstarted |-> remaining_data.data = o.image.data,
                        mismatch |-> Len(current.data) # Len(o.image.data),
                        had |-> o.w.derived[path] # NoDerived,
                        before |-> o.w.derived[path],
                        remaining |-> remaining_data.data,
                        fix |-> fix_data.data,
                        rect |-> proj.rect, target |-> o.image,
                        raised |-> after.raised, left |-> after.derived]}]]

\* run_diff once self.image is there (o: what the image property did).
RunDiffImage(o, path, proj, current) ==
    IF o.raised # "" THEN [raised |-> o.raised, proj |-> proj, w |-> o.w]
    ELSE RunDiffData(o, path, proj, current,
                     NewData(current.data, GetData(o.image).data))

\* Project.run_diff on project proj = [rect, image] of path ->
\* [raised, proj, w]; proj.image is the image the property caches.
RunDiff(w, path, proj, now) ==
    RunDiffImage(IF proj.image = None THEN OpenImage(w, path, now)
                 ELSE [raised |-> "", image |-> proj.image, w |-> w],
                 path, proj, StitchTiles(proj.rect, w.tilecache))

\* The four numbers _RE_HAS_COORDS matched in the name.
MatchGroups(path) == Coords[path[Len(path) - 1]]

\* path.rename(target): the file moves; watch() reports both names.
Rename(w, path, target) ==
    [w EXCEPT
        !.files = [q \in DOMAIN @ |->
                      IF q = target THEN @[path]
                      ELSE IF q = path THEN NoFile ELSE @[q]],
        !.emitted = @ \cup {FileEvent("deleted", path),
                               FileEvent("added", target)}]

\* What try_open returns: [raised, proj, w], proj None or [rect, image], and
\* how it ended: "none" (no project file), "hit", "miss", "invalid" (renamed)
\* or "raised".
Returned(how, raised, proj, w) ==
    [how |-> how, raised |-> raised, proj |-> proj, w |-> w, agrees |-> TRUE]

\* try_open's last two lines: the project of the stored rectangle, diffed.
TryOpenNew(d) ==
    Returned(IF d.raised = "" THEN "miss" ELSE "raised", d.raised, d.proj, d.w)

\* A plausible slip in try_open: the rectangle is stored before the image is
\* validated (the size read from the file header first).
TryOpenImageStoreFirst(w, path, mtime, o, now) ==
    LET c == MatchGroups(path)
        image == w.files[path].image
        rect == FromPointSize(From4(c[1], c[2], c[3], c[4]),
                              [w |-> image.w, h |-> image.h])
    IN  IF o.raised = "ColorNotInPalette"
        THEN Returned("invalid", "", None,
                      Rename([o.w EXCEPT
                                 !.db = CacheStore(@, CacheKey(path), mtime, rect)],
                             path, InvalidPath(path)))
        ELSE IF o.raised # "" THEN Returned("raised", o.raised, None, o.w)
        ELSE IF ~From4Ok(c[1], c[2], c[3], c[4])
        THEN Returned("raised", "AssertionError", None, o.w)
        ELSE TryOpenNew(
                RunDiff([o.w EXCEPT !.db = CacheStore(@, CacheKey(path), mtime, rect),
                                    !.storedAt[path] = w.files[path].mtime],
                        path, [rect |-> rect, image |-> None], now))

\* Project.try_open after a cache miss, once open_image has run (o). mtime is
\* what CachedProjectMetadata.__init__ read, before open_image, when the
\* world was w.
TryOpenImage(w, path, mtime, o, now) ==
    LET c == MatchGroups(path)
        rect == FromPointSize(From4(c[1], c[2], c[3], c[4]),
                              [w |-> o.image.w, h |-> o.image.h])
    IN  IF o.raised = "ColorNotInPalette"
        THEN Returned("invalid", "", None, Rename(o.w, path, InvalidPath(path)))
        ELSE IF o.raised # "" THEN Returned("raised", o.raised, None, o.w)
        ELSE IF ~From4Ok(c[1], c[2], c[3], c[4])
        THEN Returned("raised", "AssertionError", None, o.w)
        ELSE TryOpenNew(
                RunDiff([o.w EXCEPT !.db = CacheStore(@, CacheKey(path), mtime, rect),
                                    !.storedAt[path] = w.files[path].mtime],
                        path, [rect |-> rect, image |-> None], now))

\* Project.try_open after a cache miss, from `try:` on.
TryOpenMiss(w, path, now) ==
    TryOpenImage(w, path, CacheMtime(w.files, path), OpenImage(w, path, now), now)

\* What a try_open leaves that can be observed: whether it raised, the
\* project's rectangle (None for no project; the index entries follow from
\* it) and the derived files.
Outcome(t, path) ==
    [raised |-> t.raised,
     rect |-> IF t.proj = None THEN None ELSE t.proj.rect,
     derived |-> t.w.derived[path]]

\* try_open with a cache entry that loaded: cls(path, *cached). agrees: a
\* miss (missed: try_open without the entry) would have left the same.
TryOpenHit(w, path, hit, missed) ==
    [hit EXCEPT !.agrees = Outcome(hit, path) = Outcome(missed, path)]

\* Project.try_open(path)
TryOpen(w, path, now) ==
    IF ~HasCoords(path) \/ w.files[path] = NoFile
    THEN Returned("none", "", None, w)
    ELSE IF CacheLoad(w.db, CacheKey(path), CacheMtime(w.files, path)) # <<>>
    THEN TryOpenHit(w, path,
            Returned("hit", "",
                     [rect |-> CacheLoad(w.db, CacheKey(path),
                                         CacheMtime(w.files, path))[1],
                      image |-> None], w),
            TryOpenMiss([w EXCEPT !.db = CacheForget(@, CacheKey(path))], path, now))
    ELSE TryOpenMiss(w, path, now)

\* The history of try_open calls: how each ended, whether it changed the
\* cache table, whether a hit agrees with the miss, whether a miss found a
\* row of another mtime (stale), and whether a hit found the file with
\* another modification time than the row was stored for (changed).
Opened(w, path, t) ==
    [raised |-> t.raised, proj |-> t.proj,
     w |-> [t.w EXCEPT !.opens = @ \cup
              {[path |-> path, how |-> t.how, stored |-> t.w.db # w.db,
                agrees |-> t.agrees,
                stale |-> t.how = "miss" /\ w.db[path] # NoRow,
                changed |-> /\ t.how = "hit"
                            /\ w.files[path].mtime # w.storedAt[path]]}]]

(***************************************************************************)
(* main.py: the index, forget_project, load_project, Main.__init__         *)
(***************************************************************************)

\* self.tiles.setdefault(tile, set()).add(proj) for every tile of ts.
IndexAdd(index, path, ts) ==
    [t \in DOMAIN index \cup ts |->
        (IF t \in DOMAIN index THEN index[t] ELSE {})
            \cup (IF t \in ts THEN {path} ELSE {})]

\* A plausible slip in forget_project: the emptied set is left in the dict.
IndexRemoveNoPrune(index, path, ts) ==
    [t \in DOMAIN index |-> IF t \in ts THEN index[t] \ {path} ELSE index[t]]

\* The loop of forget_project: the project discarded from the set of every
\* tile of ts, a set that becomes empty deleted from the dict.
IndexRemove(index, path, ts) ==
    LET touched == {t \in ts \cap DOMAIN index : index[t] # {}}
        deleted == {t \in touched : index[t] \ {path} = {}}
    IN  [t \in DOMAIN index \ deleted |->
            IF t \in touched THEN index[t] \ {path} ELSE index[t]]

DictSet(dict, key, value) ==
    [k \in DOMAIN dict \cup {key} |-> IF k = key THEN value ELSE dict[k]]

DictPop(dict, key) == [k \in DOMAIN dict \ {key} |-> dict[k]]

\* A plausible slip in forget_project: proj.forget() left out, the row stays.
ForgetProjectKeepRow(w, path) ==
    IF path \notin DOMAIN w.projects THEN w
    ELSE [w EXCEPT
            !.projects = DictPop(@, path),
            !.tiles = IndexRemove(@, path, RectTiles(w.projects[path].rect))]

\* Main.forget_project(path)
ForgetProject(w, path) ==
    IF path \notin DOMAIN w.projects THEN w
    ELSE [w EXCEPT
            !.projects = DictPop(@, path),
            !.tiles = IndexRemove(@, path, RectTiles(w.projects[path].rect)),
            !.db = CacheForget(@, CacheKey(path))]

\* load_project after try_open (t).
LoadProjectOpened(path, t) ==
    IF t.raised # "" THEN [raised |-> t.raised, w |-> t.w]
    ELSE IF t.proj = None THEN [raised |-> "", w |-> t.w]
    ELSE [raised |-> "",
          w |-> [t.w EXCEPT
              !.projects = DictSet(@, path, t.proj),
              !.tiles = IndexAdd(@, path, RectTiles(t.proj.rect))]]

\* Main.load_project(path) -> [raised, w]
LoadProject(w, path, now) ==
    LoadProjectOpened(path, Opened(ForgetProject(w, path), path,
                                   TryOpen(ForgetProject(w, path), path, now)))

\* sorted(path.iterdir()): the names in string order.
SortedPaths == <<InvalidPath(PathA), PathA, InvalidPath(PathB), PathB>>

\* Main._load_tiles over the projects of paths ps.
RECURSIVE LoadTiles(_, _)
LoadTiles(projs, ps) ==
    IF ps = {} THEN <<>>
    ELSE IndexAdd(LoadTiles(projs, ps \ {CHOOSE q \in ps : TRUE}),
                  CHOOSE q \in ps : TRUE,
                  RectTiles(projs[CHOOSE q \in ps : TRUE].rect))

\* Project.iter consumed by Main.__init__: try_open on SortedPaths[i..],
\* the projects kept -> [raised, w].
RECURSIVE IterProjects(_, _, _)

IterProjectsOpened(t, i, now) ==
    IF t.raised # "" THEN [raised |-> t.raised, w |-> t.w]
    ELSE IterProjects(
            IF t.proj = None THEN t.w
            ELSE [t.w EXCEPT !.projects = DictSet(@, SortedPaths[i], t.proj)],
            i + 1, now)

IterProjects(w, i, now) ==
    IF i > Len(SortedPaths) THEN [raised |-> "", w |-> w]
    ELSE IterProjectsOpened(
            Opened(w, SortedPaths[i], TryOpen(w, SortedPaths[i], now)), i, now)

MainInitLoaded(it) ==
    IF it.raised # "" THEN it
    ELSE [raised |-> "",
          w |-> [it.w EXCEPT
              !.tiles = LoadTiles(it.w.projects, DOMAIN it.w.projects)]]

\* Main.__init__ -> [raised, w]
MainInit(w, now) ==
    MainInitLoaded(IterProjects([w EXCEPT !.projects = <<>>, !.tiles = <<>>], 1, now))

(***************************************************************************)
(* ingest.py: search_tiles, FoundTile.obtain; main.py: consume_new_tiles    *)
(***************************************************************************)

\* found_paths.sort(reverse=True): newest timestamp first.
RECURSIVE SortedShots(_)
SortedShots(names) ==
    IF names = {} THEN <<>>
    ELSE <<CHOOSE n \in names : \A m \in names : m.ts <= n.ts>>
         \o SortedShots(names \ {CHOOSE n \in names : \A m \in names : m.ts <= n.ts})

\* search_tiles: the FoundTile sequence of the files, [name, tile] each.
RECURSIVE FoundTiles(_)
FoundTiles(shots) ==
    IF shots = <<>> THEN <<>>
    ELSE [k \in 1..Len(ShotTileSeq(Head(shots))) |->
            [name |-> Head(shots), tile |-> ShotTileSeq(Head(shots))[k]]]
         \o FoundTiles(Tail(shots))

\* search_tiles(path): the given file, or every file of the inbox directory.
SearchTiles(w, path) ==
    IF path # None THEN FoundTiles(<<path>>)
    ELSE FoundTiles(SortedShots({n \in DOMAIN w.inbox : w.inbox[n] # NoFile}))

\* The pixels source.image.crop(rect) holds: the canvas points of the tile.
CropPoints(tile) == {pt \in Samples : TileOf(pt) = tile}

\* PALETTE.ensure(cropped), every pixel looked up: canvas point -> index.
CropData(src, tile) == [pt \in CropPoints(tile) |-> PaletteLookup(src.view[pt])]

TileFile(data, tick) == [kind |-> "file", data |-> data, mtime |-> tick]

\* A plausible slip in obtain: the getextrema() test left out, a fully
\* transparent tile is saved like any other.
ObtainStoreBlank(w, found) ==
    IF w.inbox[found.name] = NoFile
    THEN [raised |-> "FileNotFoundError", stored |-> FALSE, w |-> w]
    ELSE IF ~w.inbox[found.name].readable
    THEN [raised |-> "UnidentifiedImageError", stored |-> FALSE, w |-> w]
    ELSE IF \E pt \in CropPoints(found.tile) : LookupRaises(w.inbox[found.name].view[pt])
    THEN [raised |-> "", stored |-> FALSE, w |-> w]
    ELSE [raised |-> "", stored |-> TRUE,
          w |-> [w EXCEPT
                    !.tilecache[found.tile] =
                        TileFile(CropData(w.inbox[found.name], found.tile),
                                 w.inbox[found.name].mtime),
                    !.captured[found.tile] =
                        [stored |-> found.name.ts,
                         newest |-> Max(@.newest, found.name.ts)]]]

\* A plausible slip in obtain: ColorNotInPalette is not caught.
ObtainBadRaises(w, found) ==
    IF w.inbox[found.name] = NoFile
    THEN [raised |-> "FileNotFoundError", stored |-> FALSE, w |-> w]
    ELSE IF ~w.inbox[found.name].readable
    THEN [raised |-> "UnidentifiedImageError", stored |-> FALSE, w |-> w]
    ELSE IF \E pt \in CropPoints(found.tile) : LookupRaises(w.inbox[found.name].view[pt])
    THEN [raised |-> "ColorNotInPalette", stored |-> FALSE, w |-> w]
    ELSE IF \A pt \in CropPoints(found.tile) :
                CropData(w.inbox[found.name], found.tile)[pt] = 0
    THEN [raised |-> "", stored |-> FALSE, w |-> w]
    ELSE [raised |-> "", stored |-> TRUE,
          w |-> [w EXCEPT
                    !.tilecache[found.tile] =
                        TileFile(CropData(w.inbox[found.name], found.tile),
                                 w.inbox[found.name].mtime),
                    !.captured[found.tile] =
                        [stored |-> found.name.ts,
                         newest |-> Max(@.newest, found.name.ts)]]]

\* FoundTile.obtain() -> [raised, stored, w]: Image.open raises for a file
\* that is gone or is no image; a palette violation and a fully transparent
\* tile return False; any other tile is saved with the source's st_mtime
\* (and the capture timestamp of its source is noted).
Obtain(w, found) ==
    IF w.inbox[found.name] = NoFile
    THEN [raised |-> "FileNotFoundError", stored |-> FALSE, w |-> w]
    ELSE IF ~w.inbox[found.name].readable
    THEN [raised |-> "UnidentifiedImageError", stored |-> FALSE, w |-> w]
    ELSE IF \E pt \in CropPoints(found.tile) : LookupRaises(w.inbox[found.name].view[pt])
    THEN [raised |-> "", stored |-> FALSE, w |-> w]
    ELSE IF \A pt \in CropPoints(found.tile) :
                CropData(w.inbox[found.name], found.tile)[pt] = 0
    THEN [raised |-> "", stored |-> FALSE, w |-> w]
    ELSE [raised |-> "", stored |-> TRUE,
          w |-> [w EXCEPT
                    !.tilecache[found.tile] =
                        TileFile(CropData(w.inbox[found.name], found.tile),
                                 w.inbox[found.name].mtime),
                    !.captured[found.tile] =
                        [stored |-> found.name.ts,
                         newest |-> Max(@.newest, found.name.ts)]]]

\* The record of one obtain (o) of found[i] called on w: whether the cropped
\* sub-image held a color outside the palette (bad) or only transparent
\* pixels (blank), whether the tile was cached before (had), what obtain
\* returned and whether it left the cache entry as it was (kept).
Obtained(w, found, i, o) ==
    [at |-> i, tile |-> found[i].tile, raised |-> o.raised,
     bad |-> /\ w.inbox[found[i].name] # NoFile
             /\ w.inbox[found[i].name].readable
             /\ \E pt \in CropPoints(found[i].tile) :
                    LookupRaises(w.inbox[found[i].name].view[pt]),
     blank |-> /\ w.inbox[found[i].name] # NoFile
               /\ w.inbox[found[i].name].readable
               /\ \A pt \in CropPoints(found[i].tile) :
                    w.inbox[found[i].name].view[pt][4] = 0,
     had |-> w.tilecache[found[i].tile] # NoFile,
     returned |-> o.stored,
     kept |-> o.w.tilecache[found[i].tile] = w.tilecache[found[i].tile]]

\* The found tiles the index has a key for.
Wanted(w, found) ==
    {[at |-> j, tile |-> found[j].tile] :
        j \in {k \in 1..Len(found) : found[k].tile \in DOMAIN w.tiles}}

\* The first loop of consume_new_tiles from found[i] on ->
\* [raised, w, seen, same, obtained, wanted, at]: seen are the tiles obtain
\* stored; same records, for each obtain of pixels identical to the stored
\* tile's, what it returned and whether it left the stored file as it was;
\* obtained records every obtain; at is the index of the FoundTile whose
\* obtain raised.
RECURSIVE IngestFrom(_, _, _, _, _, _)

IngestObtained(w, found, i, seen, same, obtained, o) ==
    IF o.raised # ""
    THEN [raised |-> o.raised, w |-> w, seen |-> seen, same |-> same,
          obtained |-> obtained \cup {Obtained(w, found, i, o)},
          wanted |-> Wanted(w, found), at |-> i]
    ELSE IngestFrom(o.w, found, i + 1,
            IF o.stored THEN seen \cup {found[i].tile} ELSE seen,
            IF /\ w.tilecache[found[i].tile] # NoFile
               /\ \A pt \in CropPoints(found[i].tile) :
                        ~LookupRaises(w.inbox[found[i].name].view[pt])
               /\ w.tilecache[found[i].tile].data
                    = CropData(w.inbox[found[i].name], found[i].tile)
            THEN same \cup {[tile |-> found[i].tile, changed |-> o.stored,
                             kept |-> o.w.tilecache[found[i].tile]
                                        = w.tilecache[found[i].tile]]}
            ELSE same,
            obtained \cup {Obtained(w, found, i, o)})

IngestFrom(w, found, i, seen, same, obtained) ==
    IF i > Len(found)
    THEN [raised |-> "", w |-> w, seen |-> seen, same |-> same,
          obtained |-> obtained, wanted |-> Wanted(w, found), at |-> i]
    ELSE IF found[i].tile \notin DOMAIN w.tiles \/ found[i].tile \in seen
    THEN IngestFrom(w, found, i + 1, seen, same, obtained)
    ELSE IngestObtained(w, found, i, seen, same, obtained, Obtain(w, found[i]))

\* The second loop of consume_new_tiles over the targets in the order the
\* set happens to iterate (order, of which the targets count) ->
\* [raised, w, diffed, failed, calls]: diffed are the projects whose run_diff
\* returned, calls counts the run_diff calls made for each project.
RECURSIVE DiffFrom(_, _, _, _, _, _, _)

DiffRan(w, order, i, now, targets, diffed, calls, d) ==
    IF d.raised # ""
    THEN [raised |-> d.raised, w |-> [d.w EXCEPT !.projects[order[i]] = d.proj],
          diffed |-> diffed, failed |-> {order[i]},
          calls |-> [calls EXCEPT ![order[i]] = @ + 1]]
    ELSE DiffFrom([d.w EXCEPT !.projects[order[i]] = d.proj], order, i + 1, now,
                  targets, diffed \cup {order[i]},
                  [calls EXCEPT ![order[i]] = @ + 1])

DiffFrom(w, order, i, now, targets, diffed, calls) ==
    IF i > Len(order)
    THEN [raised |-> "", w |-> w, diffed |-> diffed, failed |-> {}, calls |-> calls]
    ELSE IF order[i] \notin targets
    THEN DiffFrom(w, order, i + 1, now, targets, diffed, calls)
    ELSE DiffRan(w, order, i, now, targets, diffed, calls,
                 RunDiff(w, order[i], w.projects[order[i]], now))

\* No run_diff call yet.
NoCalls == [q \in ProjectPaths |-> 0]

\* The orders a set of projects can iterate in.
Orders == {<<PathA, PathB>>, <<PathB, PathA>>}

\* LazyImage.__del__: the sources the generator has let go of are deleted.
Unlink(w, names) ==
    [w EXCEPT !.inbox = [n \in DOMAIN @ |-> IF n \in names THEN NoFile ELSE @[n]]]

NamesOf(found, lo, hi) == {found[k].name : k \in lo..hi}

\* What a pass did: the tiles stored, the obtains of identical pixels, every
\* obtain, the found tiles the index wanted, the found tiles and the index
\* of the pass, the targets, the projects re-diffed, the one whose run_diff
\* raised, the run_diff calls, and the found tiles of other, readable
\* screenshots that a raising obtain left unvisited though the index wanted
\* them.
Pass(raised, found, ing, targets, diffed, failed, calls, skipped) ==
    [ran |-> TRUE, raised |-> raised, stored |-> ing.seen, same |-> ing.same,
     obtained |-> ing.obtained, wanted |-> ing.wanted,
     found |-> {found[k].tile : k \in 1..Len(found)}, index |-> ing.w.tiles,
     targets |-> targets, diffed |-> diffed, failed |-> failed,
     calls |-> calls, skipped |-> skipped]

NoPass ==
    [ran |-> FALSE, raised |-> "", stored |-> {}, same |-> {},
     obtained |-> {}, wanted |-> {}, found |-> {}, index |-> <<>>,
     targets |-> {}, diffed |-> {}, failed |-> {}, calls |-> NoCalls,
     skipped |-> {}]

\* {proj for tile in seen_tiles for proj in self.tiles[tile]}
Targets(w, seen) == UNION {w.tiles[t] : t \in seen}

\* consume_new_tiles after its second loop (d).
ConsumeDiffed(found, ing, d, held) ==
    IF d.raised # ""
    THEN [raised |-> d.raised,
          w |-> Unlink(d.w, NamesOf(found, 1, Len(found))
                              \ (IF held THEN {found[Len(found)].name} ELSE {})),
          pass |-> Pass(d.raised, found, ing, Targets(ing.w, ing.seen), d.diffed,
                        d.failed, d.calls, {})]
    ELSE [raised |-> "", w |-> Unlink(d.w, NamesOf(found, 1, Len(found))),
          pass |-> Pass("", found, ing, Targets(ing.w, ing.seen), d.diffed, {},
                        d.calls, {})]

\* consume_new_tiles after its first loop (ing).
ConsumeIngested(w, found, ing, now, order, held) ==
    IF ing.raised # ""
    THEN [raised |-> ing.raised,
          w |-> Unlink(ing.w, (NamesOf(found, 1, ing.at - 1) \ {found[ing.at].name})
                                \cup (IF held THEN {} ELSE {found[ing.at].name})),
          pass |-> Pass(ing.raised, found, ing, {}, {}, {}, NoCalls,
                        {found[k] :
                            k \in {j \in (ing.at + 1)..Len(found) :
                                    /\ found[j].name # found[ing.at].name
                                    /\ found[j].tile \in DOMAIN w.tiles
                                    /\ found[j].tile \notin ing.seen
                                    /\ w.inbox[found[j].name].readable}})]
    ELSE IF ing.seen = {}
    THEN [raised |-> "", w |-> Unlink(ing.w, NamesOf(found, 1, Len(found))),
          pass |-> Pass("", found, ing, {}, {}, {}, NoCalls, {})]
    ELSE ConsumeDiffed(found, ing,
            DiffFrom(ing.w, order, 1, now, Targets(ing.w, ing.seen), {}, NoCalls),
            held)

\* Main.consume_new_tiles(path) -> [raised, w, pass]. order is the iteration
\* order of the targets set. When an exception ends the pass the source still
\* referenced is deleted or not (finalizers at interpreter exit): held.
ConsumeNewTiles(w, path, now, order, held) ==
    ConsumeIngested(w, SearchTiles(w, path),
                    IngestFrom(w, SearchTiles(w, path), 1, {}, {}, {}),
                    now, order, held)

(***************************************************************************)
(* The system: the process, the disk, the user.                            *)
(***************************************************************************)

World ==
    [projects |-> projects, tiles |-> tiles, files |-> files,
     derived |-> derived, db |-> db, tilecache |-> tilecache, inbox |-> inbox,
     storedAt |-> storedAt, captured |-> captured, emitted |-> {}, opens |-> {}, diffs |-> {}]

\* The disk as a handler left it.
Disk(w) ==
    /\ files' = w.files
    /\ derived' = w.derived
    /\ db' = w.db
    /\ tilecache' = w.tilecache
    /\ inbox' = w.inbox
    /\ storedAt' = w.storedAt
    /\ captured' = w.captured
    /\ lastOpen' = w.opens
    /\ lastDiff' = w.diffs

\* A handler returned (r = [raised, w]): the process goes on at `at` with the
\* events left (rest) and those of the handler's own writes to the projects
\* directory; what is written before watch() runs is not reported. (The
\* events of the derived files, written next to the project files, are left
\* out: their names never match _RE_HAS_COORDS, so handling them does
\* nothing.) An exception nothing catches ends the process: main() never
\* returns to the loop, the objects of Main are gone.
NoneGone == [p \in Paths |-> NoRow]

Handled(r, at, rest, left) ==
    /\ Disk(r.w)
    /\ IF r.raised # ""
       THEN /\ pc' = "off"
            /\ projects' = <<>>
            /\ tiles' = <<>>
            /\ events' = {}
            /\ gone' = NoneGone
       ELSE /\ pc' = at
            /\ projects' = r.w.projects
            /\ tiles' = r.w.tiles
            /\ events' = IF pc = "watching" THEN rest \cup r.w.emitted ELSE {}
            /\ gone' = left

Consumed(r, at, rest) ==
    /\ lastPass' = r.pass
    /\ lastEvent' = None
    /\ Handled(r, at, rest, gone)

\* Before the first start: the projects directory holds what the user saved.
Init ==
    /\ pc = "off"
    /\ projects = <<>>
    /\ tiles = <<>>
    /\ events = {}
    /\ derived = [p \in ProjectPaths |-> NoDerived]
    /\ db = [p \in Paths |-> NoRow]
    /\ tilecache = [t \in AllTiles |-> NoFile]
    /\ inbox = [n \in ShotNames |-> NoFile]
    /\ storedAt = [p \in Paths |-> 0]
    /\ captured = [t \in AllTiles |-> [stored |-> 0, newest |-> 0]]
    /\ lastOpen = {}
    /\ lastDiff = {}
    /\ lastPass = NoPass
    /\ lastEvent = None
    /\ gone = NoneGone
    /\ \E tick \in FirstTicks :
       \E a \in {NoFile, File(FirstImage(PathA), tick)},
          b \in {NoFile, File(FirstImage(PathB), tick)} :
        files = [p \in Paths |-> IF p = PathA THEN a ELSE IF p = PathB THEN b ELSE NoFile]
    /\ ops = MaxOps
    /\ lastStore = [p \in Paths |-> NoRow]
    /\ arg = None
    /\ res = NoResult

\* main(): worker = Main()
Start ==
    /\ pc = "off"
    /\ \E now \in NowTicks : Handled(MainInit(World, now), "init", {}, gone)
    /\ lastPass' = NoPass
    /\ lastEvent' = None
    /\ UNCHANGED <<ops, lastStore, arg, res>>

\* The iteration orders of the targets: a choice once there are two projects.
TargetOrders == IF Cardinality(DOMAIN projects) > 1 THEN Orders ELSE {<<PathA, PathB>>}

\* Whether the source held when an exception ends a pass is deleted: a
\* choice when an exception can end it (a screenshot PIL cannot open, a
\* project whose image is still to be opened), immaterial otherwise.
HeldChoices ==
    IF \/ \E n \in ShotNames : inbox[n] # NoFile /\ ~inbox[n].readable
       \/ \E p \in DOMAIN projects : projects[p].image = None
    THEN BOOLEAN ELSE {FALSE}

\* main(): worker.consume_new_tiles(), then watch_for_updates() starts.
FirstConsume ==
    /\ pc = "init"
    /\ \E now \in NowTicks, held \in HeldChoices, order \in TargetOrders :
        Consumed(ConsumeNewTiles(World, None, now, order, held), "watching", {})
    /\ UNCHANGED <<ops, lastStore, arg, res>>

\* watch_for_updates, one change of the inbox directory.
HandleInbox(e) ==
    /\ pc = "watching"
    /\ e \in events
    /\ e.dir = "inbox"
    /\ IF e.change # "added"
       THEN Consumed([raised |-> "", w |-> World, pass |-> NoPass], "watching",
                     events \ {e})
       ELSE \E now \in NowTicks, held \in HeldChoices, order \in TargetOrders :
                Consumed(ConsumeNewTiles(World, e.shot, now, order, held),
                         "watching", events \ {e})
    /\ UNCHANGED <<ops, lastStore, arg, res>>

\* The two calls watch_for_updates makes for a change of a project file.
ProjectChanged(w, change, path, now) ==
    IF change = "deleted" THEN [raised |-> "", w |-> ForgetProject(w, path)]
    ELSE IF change = "added" THEN LoadProject(w, path, now)
    ELSE LoadProject(ForgetProject(w, path), path, now)

\* watch_for_updates, one change of the projects directory. A deleted event
\* for a live project ends its lifecycle: the row forget_project is to delete
\* is remembered until the next change of the path is handled.
HandleProject(e) ==
    /\ pc = "watching"
    /\ e \in events
    /\ e.dir = "wplace"
    /\ \E now \in NowTicks :
        Handled(ProjectChanged(World, e.change, e.path, now), "watching",
                events \ {e},
                [gone EXCEPT ![e.path] =
                    IF e.change = "deleted" /\ e.path \in DOMAIN projects
                    THEN db[e.path] ELSE NoRow])
    /\ lastEvent' = [change |-> e.change, path |-> e.path, prior |-> gone[e.path]]
    /\ lastPass' = NoPass
    /\ UNCHANGED <<ops, lastStore, arg, res>>

\* watch_loop: KeyboardInterrupt ends the loop and main() returns.
Exit ==
    /\ pc = "watching"
    /\ pc' = "off"
    /\ projects' = <<>>
    /\ tiles' = <<>>
    /\ events' = {}
    /\ lastOpen' = {}
    /\ lastDiff' = {}
    /\ lastPass' = NoPass
    /\ lastEvent' = None
    /\ gone' = NoneGone
    /\ UNCHANGED <<files, derived, db, tilecache, inbox, storedAt, captured, ops,
                   lastStore, arg, res>>

\* watch() reports a change while the process watches.
Report(e) == IF pc = "watching" THEN events \cup {e} ELSE events

UserStep ==
    /\ pc \in {"off", "watching"}
    /\ ops > 0
    /\ ops' = ops - 1
    /\ lastOpen' = {}
    /\ lastDiff' = {}
    /\ lastPass' = NoPass
    /\ lastEvent' = None
    /\ UNCHANGED <<pc, projects, tiles, derived, db, tilecache, storedAt,
                   captured, gone, lastStore, arg, res>>

\* The user saves an image under a project path.
UserSave(path, image, tick) ==
    /\ UserStep
    /\ files' = [files EXCEPT ![path] = File(image, tick)]
    /\ events' = Report(FileEvent(IF files[path] = NoFile THEN "added" ELSE "modified",
                                  path))
    /\ UNCHANGED inbox

\* The user deletes a project file.
UserDelete(path) ==
    /\ UserStep
    /\ files[path] # NoFile
    /\ files' = [files EXCEPT ![path] = NoFile]
    /\ events' = Report(FileEvent("deleted", path))
    /\ UNCHANGED inbox

\* The user puts a deleted project file back as it first was, modification
\* time included (project a's, in Next).
UserRestore(path) ==
    /\ UserStep
    /\ files[path] = NoFile
    /\ \E tick \in FirstTicks :
        files' = [files EXCEPT ![path] = File(FirstImage(path), tick)]
    /\ events' = Report(FileEvent("added", path))
    /\ UNCHANGED inbox

\* A screenshot arrives in the inbox.
UserDrop(name, readable, view) ==
    /\ UserStep
    /\ inbox[name] = NoFile
    /\ inbox' = [inbox EXCEPT ![name] = ShotFile(readable, view, DropTick(ops))]
    /\ events' = Report(InboxEvent("added", name))
    /\ UNCHANGED files

Next ==
    \/ Start
    \/ FirstConsume
    \/ \E e \in events : HandleInbox(e)
    \/ \E e \in events : HandleProject(e)
    \/ Exit
    \/ \E path \in ProjectPaths : \E image \in UserImages(path), tick \in SaveTicks :
            UserSave(path, image, tick)
    \/ \E path \in ProjectPaths : UserDelete(path)
    \/ UserRestore(PathA)
    \/ \E name \in ShotNames : \E view \in ShotViews(name) : UserDrop(name, TRUE, view)
    \/ UserDrop(ShotTwo, FALSE, ViewAA)

Spec == Init /\ [][Next]_vars

(***************************************************************************)
(* The pure functions and the metadata cache on their own: the input is    *)
(* drawn in the first state and the function applied to it.                *)
(***************************************************************************)

\* Nothing runs and the disk is empty.
Idle ==
    /\ pc = "off"
    /\ projects = <<>>
    /\ tiles = <<>>
    /\ events = {}
    /\ files = [p \in Paths |-> NoFile]
    /\ derived = [p \in ProjectPaths |-> NoDerived]
    /\ tilecache = [t \in AllTiles |-> NoFile]
    /\ inbox = [n \in ShotNames |-> NoFile]
    /\ storedAt = [p \in Paths |-> 0]
    /\ captured = [t \in AllTiles |-> [stored |-> 0, newest |-> 0]]
    /\ ops = 0
    /\ lastOpen = {}
    /\ lastDiff = {}
    /\ lastPass = NoPass
    /\ lastEvent = None
    /\ gone = NoneGone

Result(value) == [kind |-> "result", value |-> value]

\* ---- pixel_compare ----

\* The palette indices.
Indices == 0..(Len(Colors) - 1)

InitPixel ==
    /\ Idle
    /\ db = [p \in Paths |-> NoRow]
    /\ lastStore = [p \in Paths |-> NoRow]
    /\ arg \in [current : Indices, desired : Indices]
    /\ res = NoResult

ApplyPixel ==
    /\ res = NoResult
    /\ res' = Result(pixel_compare(arg.current, arg.desired))
    /\ UNCHANGED <<mainVars, lastStore, arg>>

SpecPixel == InitPixel /\ [][ApplyPixel]_vars

\* ---- Rectangle.tiles ----

\* The edges the rectangles are drawn from: on, next to and between the tile
\* boundaries.
EdgesX == {0, 999, 1000, 1500, 2000, 3500}
EdgesY == {0, 10, 3000, 3800}

InitTiles ==
    /\ Idle
    /\ db = [p \in Paths |-> NoRow]
    /\ lastStore = [p \in Paths |-> NoRow]
    /\ arg \in [left : EdgesX, top : EdgesY, right : EdgesX, bottom : EdgesY]
    /\ res = NoResult

ApplyTiles ==
    /\ res = NoResult
    /\ res' = Result(RectTiles(arg))
    /\ UNCHANGED <<mainVars, lastStore, arg>>

SpecTiles == InitTiles /\ [][ApplyTiles]_vars

\* ---- CachedProjectMetadata ----

\* The modification times (whole seconds) and the rectangles stored.
CacheMtimes == {1, 2, 3}
CacheRects ==
    {FromPointSize(From4(0, 0, 999, 0), [w |-> n, h |-> 1]) : n \in {1, 2}}

InitCache ==
    /\ Idle
    /\ db = [p \in Paths |-> NoRow]
    /\ lastStore = [p \in Paths |-> NoRow]
    /\ arg = None
    /\ res = NoResult

\* cached(rect) on the object of filename key, whose file has mtime.
Store(key, mtime, rect) ==
    /\ db' = CacheStore(db, key, mtime, rect)
    /\ lastStore' = [lastStore EXCEPT ![key] = [mtime |-> mtime, rect |-> rect]]
    /\ arg' = [op |-> "store", key |-> key, prior |-> db[key]]
    /\ UNCHANGED <<pc, projects, tiles, events, files, derived, tilecache, inbox,
                   storedAt, captured, ops, lastOpen, lastDiff, lastPass, lastEvent, gone, res>>

\* cached.forget() on the object of filename key.
Forget(key) ==
    /\ db' = CacheForget(db, key)
    /\ lastStore' = [lastStore EXCEPT ![key] = NoRow]
    /\ arg' = [op |-> "forget", key |-> key, prior |-> db[key]]
    /\ UNCHANGED <<pc, projects, tiles, events, files, derived, tilecache, inbox,
                   storedAt, captured, ops, lastOpen, lastDiff, lastPass, lastEvent, gone, res>>

NextCache ==
    \/ \E key \in ProjectPaths, mtime \in CacheMtimes, rect \in CacheRects :
            Store(key, mtime, rect)
    \/ \E key \in ProjectPaths : Forget(key)

SpecCache == InitCache /\ [][NextCache]_vars

\* ---- stitch_tiles ----

\* The edges of the rectangles stitched, around the boundary of tiles (0, 0)
\* and (1, 0), in either order; the cached tiles, each absent or holding one
\* of two colors at its sample point next to the boundary.
StitchEdgesX == {998, 1000, 1001}
StitchEdgesY == {0, 1}

StitchTile(point) ==
    {NoFile} \cup {TileFile((point :> index), 3) : index \in {6, 7}}

InitStitch ==
    /\ Idle
    /\ db = [p \in Paths |-> NoRow]
    /\ lastStore = [p \in Paths |-> NoRow]
    /\ \E rect \in [left : StitchEdgesX, top : StitchEdgesY,
                     right : StitchEdgesX, bottom : StitchEdgesY],
          t00 \in StitchTile(<<999, 0>>), t10 \in StitchTile(<<1000, 0>>) :
            arg = [rect |-> rect, cache |-> (<<0, 0>> :> t00) @@ (<<1, 0>> :> t10)]
    /\ res = NoResult

ApplyStitch ==
    /\ res = NoResult
    /\ res' = Result(StitchTiles(arg.rect, arg.cache))
    /\ UNCHANGED <<mainVars, lastStore, arg>>

SpecStitch == InitStitch /\ [][ApplyStitch]_vars

\* ---- Palette.lookup ----

\* The pixels looked up: every color of the table, the alias, and colors next
\* to table colors or far from them, each transparent, faint and opaque.
LookupRgbs ==
    {Colors[i] : i \in 1..Len(Colors)}
        \cup {AliasRgb, AliasRgb + 1, 1, 66051, 6291481, 16711934, 16777214}
LookupAlphas == {0, 1, 255}

Rgba(rgb, alpha) == <<rgb \div 65536, (rgb \div 256) % 256, rgb % 256, alpha>>

InitLookup ==
    /\ Idle
    /\ db = [p \in Paths |-> NoRow]
    /\ lastStore = [p \in Paths |-> NoRow]
    /\ \E rgb \in LookupRgbs, alpha \in LookupAlphas : arg = Rgba(rgb, alpha)
    /\ res = NoResult

ApplyLookup ==
    /\ res = NoResult
    /\ res' = Result([raised |-> LookupRaises(arg),
                      index |-> IF LookupRaises(arg) THEN -1 ELSE PaletteLookup(arg)])
    /\ UNCHANGED <<mainVars, lastStore, arg>>

SpecLookup == InitLookup /\ [][ApplyLookup]_vars

(***************************************************************************)
(* Properties                                                              *)
(***************************************************************************)

\* C1: whenever Main exists, (1) every tile of a live project's rectangle is
\* a key of Main.tiles whose set holds the project, (2) every project in a
\* tile's set is live and has the tile in its rect.tiles, (3) no key maps to
\* an empty set.
IndexMatchesProjects ==
    /\ \A p \in DOMAIN projects : \A t \in RectTiles(projects[p].rect) :
            t \in DOMAIN tiles /\ p \in tiles[t]
    /\ \A t \in DOMAIN tiles : \A p \in tiles[t] :
            p \in DOMAIN projects /\ t \in RectTiles(projects[p].rect)
    /\ \A t \in DOMAIN tiles : tiles[t] # {}

\* C1's case: project a (tiles (0,0) and (1,0)) was live and is forgotten,
\* project b (tile (1,0)) stays: tile (0,0) is pruned, tile (1,0) keeps b.
IndexPruned ==
    /\ pc = "watching"
    /\ events = {}
    /\ files[PathA] = NoFile
    /\ derived[PathA] # NoDerived
    /\ DOMAIN projects = {PathB}
    /\ DOMAIN tiles = {<<1, 0>>}

\* C2: an obtain of pixels identical to those of the stored tile returns
\* False and leaves the stored tile and its timestamp as they were.
SameTileUnchanged ==
    \A s \in lastPass.same : ~s.changed /\ s.kept

\* C3: every try_open that ends in a cache hit leaves the same rectangle and
\* the same derived files as the same try_open without the cache entry.
HitAgreesWithMiss ==
    \A o \in lastOpen : o.how = "hit" => o.agrees

\* C3's case otherwise: a hit that agrees with the miss.
HitAgreeing ==
    \E o \in lastOpen : o.how = "hit" /\ o.agrees

\* C4: a lookup for filename f at mtime m is a hit iff the last store for f
\* not followed by a forget was made at exactly m, and then returns that
\* store's rectangle; any other stored mtime, earlier or later, is a miss.
LookupIsLastStore ==
    \A f \in Paths : \A m \in CacheMtimes \cup {0, 4} :
        CacheLoad(db, f, m) =
            IF lastStore[f] # NoRow /\ lastStore[f].mtime = m
            THEN <<lastStore[f].rect>> ELSE <<>>

\* C4's case: a store has replaced an entry of another mtime and another
\* rectangle, with an earlier and a later mtime to look up.
StoreReplaced ==
    /\ arg # None
    /\ arg.op = "store"
    /\ arg.prior # NoRow
    /\ arg.prior.mtime # db[arg.key].mtime
    /\ arg.prior.right # db[arg.key].right
    /\ db[arg.key].mtime = 2

\* C5: after a run_diff whose stitched current image equals the target at
\* every pixel, neither .remaining.png nor .fix.png exists.
CompleteLeavesNoFiles ==
    \A d \in lastDiff : d.same => d.raised = "" /\ d.left = NoDerived

\* C5's case: an all-background target equal to the current image, with
\* derived files there before the run.
CompleteBlankHadFiles ==
    \E d \in lastDiff :
        /\ d.same
        /\ d.had
        /\ files[d.path] # NoFile
        /\ \A k \in 1..Len(files[d.path].image.data) : files[d.path].image.data[k] = 0

\* C6: pixel_compare returns (0, 0) for equal indices; otherwise remaining is
\* desired and fix is desired when current is not 0, else 0.
PixelCompareTable ==
    res.kind = "result" =>
        IF arg.current = arg.desired THEN res.value = <<0, 0>>
        ELSE /\ res.value[1] = arg.desired
             /\ res.value[2] = (IF arg.current # 0 THEN arg.desired ELSE 0)

\* C6's case: a wrong color on the canvas (neither background nor desired).
PixelGriefed ==
    /\ res.kind = "result"
    /\ arg.current # 0
    /\ arg.desired # 0
    /\ arg.current # arg.desired

\* A run_diff (r) that neither raised nor changed a derived file.
RanAsBefore(r) == r.raised = "" /\ r.w.derived = derived

\* C7: for every project whose run_diff ran in the last handler, running
\* run_diff again in the state it left neither raises nor changes a derived
\* file.
RerunLeavesFiles ==
    \A d \in lastDiff : \A now \in NowTicks :
        (pc # "off" /\ d.path \in DOMAIN projects) =>
            RanAsBefore(RunDiff(World, d.path, projects[d.path], now))

\* C7's case: a pass of consume_new_tiles has re-diffed a project and left
\* both of its derived files.
PassLeftFiles ==
    \E p \in lastPass.diffed :
        /\ pc = "watching"
        /\ derived[p].remaining # None
        /\ derived[p].fix # None

\* The tiles whose cell holds a pixel of the rectangle's area, by scanning
\* the columns and the rows of the area.
AreaTiles(r) ==
    {<<tx, ty>> :
        tx \in {x \div TileEdge :
                    x \in RectPoint(r).x..(RectPoint(r).x + RectSize(r).w - 1)},
        ty \in {y \div TileEdge :
                    y \in RectPoint(r).y..(RectPoint(r).y + RectSize(r).h - 1)}}

\* C8: Rectangle.tiles is exactly the set of tiles whose 1000x1000 cell holds
\* at least one pixel of the rectangle's area, for every four edges.
TilesAreAreaTiles ==
    res.kind = "result" => res.value = AreaTiles(arg)

\* C8's example: point (2000, 3000), size (1500, 800) gives {(2,3), (3,3)}.
TilesExample ==
    /\ res.kind = "result"
    /\ arg = FromPointSize([x |-> 2000, y |-> 3000], [w |-> 1500, h |-> 800])
    /\ res.value = {<<2, 3>>, <<3, 3>>}

\* C9: in a pass of consume_new_tiles, a failing obtain leaves no other
\* found tile unvisited and a failing run_diff leaves no other target
\* without its run_diff.
PassIsolatesFailures ==
    /\ lastPass.skipped = {}
    /\ lastPass.failed # {} => (lastPass.targets \ lastPass.failed) \subseteq lastPass.diffed

\* C10: a try_open that found a color outside the palette has renamed the
\* file to .invalid.png and stored nothing, the path is no project and in no
\* tile's set; a .invalid.png path is never opened as a project.
InvalidIsRenamedAndDropped ==
    /\ \A o \in lastOpen : o.how = "invalid" =>
            /\ ~o.stored
            /\ files[o.path] = NoFile
            /\ files[InvalidPath(o.path)] # NoFile
            /\ o.path \notin DOMAIN projects
            /\ \A t \in DOMAIN tiles : o.path \notin tiles[t]
    /\ \A p \in Paths \ ProjectPaths :
            /\ p \notin DOMAIN projects
            /\ \A t \in DOMAIN tiles : p \notin tiles[t]
            /\ db[p] = NoRow
            /\ \A o \in lastOpen : o.path = p => o.how = "none"

\* C10's case: the file was renamed and the event for the renamed file has
\* been handled.
InvalidEventHandled ==
    /\ pc = "watching"
    /\ events = {}
    /\ files[InvalidPath(PathA)] # NoFile
    /\ files[PathA] = NoFile
    /\ \E o \in lastOpen : o.path = InvalidPath(PathA)

\* C11: the added event handled for a path whose live project a deleted
\* event ended never reuses the stored metadata: try_open is no cache hit;
\* for a file that is there it validates the palette (renaming a file that
\* fails), stores the rectangle computed from the file and runs the diff.
ReaddIsNewLifecycle ==
    (lastEvent # None /\ lastEvent.change = "added" /\ lastEvent.prior # NoRow) =>
        /\ \E o \in lastOpen : o.path = lastEvent.path
        /\ \A o \in lastOpen : o.path = lastEvent.path =>
            /\ o.how # "hit"
            /\ o.how = "none" => files[o.path] = NoFile
            /\ o.how = "invalid" => files[InvalidPath(o.path)] # NoFile
            /\ o.how = "miss" =>
                /\ o.stored
                /\ o.path \in DOMAIN projects
                /\ RectSize(projects[o.path].rect)
                     = [w |-> files[o.path].image.w, h |-> files[o.path].image.h]
                /\ \E d \in lastDiff : d.path = o.path

\* C11's case: the file put back has the modification time the forgotten
\* row was stored with, and the project is loaded again.
ReaddedSameMtime ==
    /\ lastEvent # None
    /\ lastEvent.change = "added"
    /\ lastEvent.prior # NoRow
    /\ db[lastEvent.path] # NoRow
    /\ db[lastEvent.path].mtime = lastEvent.prior.mtime
    /\ \E o \in lastOpen : o.path = lastEvent.path /\ o.how = "miss"

\* C12: an obtain of a sub-image whose pixels are all transparent returns
\* False and leaves the tile's cache entry, present or absent, as it was.
BlankNeverStored ==
    \A o \in lastPass.obtained :
        o.blank => o.raised = "" /\ ~o.returned /\ o.kept

\* C12's case: the transparent sub-tile of a two-tile screenshot, for a tile
\* that is cached.
BlankOverCached ==
    \E o \in lastPass.obtained : o.blank /\ o.had /\ o.at > 1

\* C13: an obtain of a sub-image with an opaque color outside the palette
\* returns False and leaves the tile's cache entry as it was, and the loop
\* goes on: every later found tile the index wants is obtained, unless its
\* tile was stored earlier in the pass.
BadLeavesCache ==
    \A o \in lastPass.obtained :
        o.bad =>
            /\ o.raised = ""
            /\ ~o.returned
            /\ o.kept
            /\ \A f \in lastPass.wanted :
                    f.at > o.at =>
                        \/ \E n \in lastPass.obtained : n.at = f.at
                        \/ \E n \in lastPass.obtained :
                                n.at < f.at /\ n.tile = f.tile /\ n.returned

\* C13's case: the violation is in the sub-image of a cached tile, and a
\* later tile of the same pass is stored.
BadThenStored ==
    \E o \in lastPass.obtained :
        /\ o.bad
        /\ o.had
        /\ \E n \in lastPass.obtained : n.at > o.at /\ n.returned

\* The pixel the cache holds for a canvas point: that of the cached tile
\* covering the point, 0 when the tile is absent.
CachedPixel(cache, point) ==
    IF cache[TileOf(point)] = NoFile THEN 0
    ELSE TilePixel(cache[TileOf(point)], point)

LookupIsExact ==
    res.kind = "result" =>
        IF arg[4] = 0 THEN ~res.value.raised /\ res.value.index = 0
        ELSE IF \E i \in 1..(Len(Colors) - 1) : Colors[i + 1] = PackRgb(arg)
        THEN /\ ~res.value.raised
             /\ res.value.index \in 1..(Len(Colors) - 1)
             /\ Colors[res.value.index + 1] = PackRgb(arg)
        ELSE IF PackRgb(arg) = AliasRgb
        THEN /\ ~res.value.raised
             /\ res.value.index \in 1..(Len(Colors) - 1)
             /\ Colors[res.value.index + 1] = AliasOfRgb
        ELSE res.value.raised

\* C15's case: the RGB of the reserved entry 0, opaque, raises.
LookupReservedRaises ==
    /\ res.kind = "result"
    /\ arg = <<255, 0, 255, 255>>
    /\ PackRgb(arg) = Colors[1]
    /\ res.value.raised

\* C16: a run_diff whose remaining map equals the target at every pixel
\* leaves .remaining.png and .fix.png exactly as they were.
UnstartedWritesNothing ==
    \A d \in lastDiff : d.unstarted => d.raised = "" /\ d.left = d.before

\* C17: after a run_diff a .fix.png exists only if the fix map has a
\* non-zero pixel and differs from the remaining map, and then it is that
\* map, whose non-zero pixels equal the remaining pixels at their positions;
\* a run that saved .remaining.png with a fix map all zero or equal to the
\* remaining map leaves no .fix.png.
FixOnlyWhenGriefed ==
    \A d \in lastDiff :
        d.raised = "" =>
            /\ d.left.fix # None =>
                /\ \E k \in 1..Len(d.fix) : d.fix[k] # 0
                /\ d.fix # d.remaining
                /\ d.left.fix = SaveDiff(d.rect, Bytes(d.fix))
                /\ \A k \in 1..Len(d.fix) :
                        d.fix[k] # 0 => d.fix[k] = d.remaining[k]
            /\ (/\ d.left.remaining # None
                /\ \/ \A k \in 1..Len(d.fix) : d.fix[k] = 0
                   \/ d.fix = d.remaining)
                    => d.left.fix = None

\* C17's case: a run that saved .remaining.png found a .fix.png of an
\* earlier run and a fix map not to be written.
FixDropped ==
    \E d \in lastDiff :
        /\ d.raised = ""
        /\ d.before.fix # None
        /\ d.left.remaining # None
        /\ d.left.fix = None

\* C18: a try_open that finds the file with a modification time other than
\* the one its row was stored for, by however little, is no cache hit.
ChangedFileNeverHit ==
    \A o \in lastOpen : o.how = "hit" => ~o.changed

\* C18's case otherwise: a modification time a whole second or more from the
\* stored one is a miss that stores the row again.
ChangedSecondMisses ==
    \E o \in lastOpen :
        /\ o.how = "miss"
        /\ o.stale
        /\ o.stored
        /\ storedAt[o.path] >= 5

\* C19: a run_diff whose target image has another pixel count than the
\* stitched image of its rectangle raises and leaves the derived files as
\* they were.
MismatchFailsLoudly ==
    \A d \in lastDiff : d.mismatch => d.raised # "" /\ d.left = d.before

\* C20: whichever order the screenshots of a tile are processed in, in one
\* pass or in several, the cached tile comes from the screenshot of the
\* newest capture timestamp among those a tile was stored from.
NewestTileStored ==
    \A t \in AllTiles : captured[t].stored = captured[t].newest

\* C20's case in one pass: the newer screenshot's tile is stored and the
\* older screenshot's tile of the same coordinates is passed over.
NewerWinsInOnePass ==
    /\ lastPass.raised = ""
    /\ \E o \in lastPass.obtained :
        /\ o.returned
        /\ \E f \in lastPass.wanted :
            /\ f.at > o.at
            /\ f.tile = o.tile
            /\ \A n \in lastPass.obtained : n.at # f.at

\* The projects the index of the last pass maps from a tile stored in it.
PassDue == UNION {lastPass.index[t] : t \in lastPass.stored}

\* How often the last pass called run_diff of project q.
PassCalls(q) == lastPass.calls[q]

\* The tiles the last pass stored with pixels other than those cached before.
PassChanged ==
    {t \in lastPass.stored :
        ~\E m \in lastPass.same : m.tile = t /\ m.changed}

\* C21: in one consume_new_tiles pass the projects re-diffed are exactly
\* those the index maps from a tile stored in the pass, run_diff is called
\* exactly once for each of them and for no other project, no project all
\* of whose tiles were unchanged or not found is re-diffed, and a found
\* tile the index has no key for is not stored.
RediffedAreStoredTargets ==
    lastPass.ran =>
        /\ lastPass.diffed = PassDue
        /\ \A q \in PassDue : PassCalls(q) = 1
        /\ \A q \in ProjectPaths \ PassDue : PassCalls(q) = 0
        /\ \A q \in lastPass.diffed :
                \E t \in PassChanged : q \in lastPass.index[t]
        /\ \A t \in lastPass.found \ DOMAIN lastPass.index :
                /\ t \notin lastPass.stored
                /\ \A o \in lastPass.obtained : o.tile # t

\* A pass stored two tiles of one project and called its run_diff once.
SeveralTilesOneDiff ==
    /\ lastPass.ran
    /\ lastPass.raised = ""
    /\ \E q \in lastPass.diffed :
            /\ Cardinality({t \in lastPass.stored : q \in lastPass.index[t]}) >= 2
            /\ PassCalls(q) = 1

\* The rectangle a target image saved under path covers: the point of the
\* numbers in the name, the size of the image.
TargetRect(path, target) ==
    FromPointSize(From4(MatchGroups(path)[1], MatchGroups(path)[2],
                        MatchGroups(path)[3], MatchGroups(path)[4]),
                  [w |-> target.w, h |-> target.h])

\* The remaining map (part 1) or the fix map (part 2) of a target over a
\* tile cache, as an image: each pixel of the target compared with the
\* pixel the cache holds at its place.
DiffMap(path, target, cache, part) ==
    [mode |-> "P", w |-> target.w, h |-> target.h,
     data |-> [k \in 1..Len(target.data) |->
                 pixel_compare(
                     StitchTiles(TargetRect(path, target), cache).data[k],
                     target.data[k])[part]]]

\* C22: after every run_diff that completed, a .remaining.png that exists
\* holds the remaining map of the project's target over the current tile
\* cache, and a .fix.png that exists holds the fix map of the two.
DerivedNeverStale ==
    \A d \in lastDiff :
        d.raised = "" =>
            /\ d.left.remaining # None =>
                    d.left.remaining = DiffMap(d.path, d.target, tilecache, 1)
            /\ d.left.fix # None =>
                    d.left.fix = DiffMap(d.path, d.target, tilecache, 2)

\* A project that was in progress, with derived files, is diffed when none
\* of its pixels is painted as wanted any more, and its files are others
\* than before.
BackToUnpainted ==
    \E d \in lastDiff :
        /\ d.raised = ""
        /\ d.unstarted
        /\ d.before.remaining # None
        /\ \E k \in 1..Len(d.before.remaining.data) :
                d.before.remaining.data[k] = 0 /\ d.target.data[k] # 0
        /\ d.left.remaining # None
        /\ d.left # d.before

====
